---- MODULE Spec2Model ----
(***************************************************************************)
(* Model of druid-shell/src/dialog.rs: the FileDialogOptions builder and   *)
(* the FileSpec file-type descriptions.                                    *)
(*                                                                         *)
(* A Rust &'static str whose characters matter (a file extension) is a     *)
(* sequence of one-character strings; a name, which the code only stores,  *)
(* is a TLA+ string.  Option<T> is a tagged record.                        *)
(***************************************************************************)
EXTENDS Integers, Sequences, FiniteSets, TLC

VARIABLES opts, prev, prev2, last, last2, types, fspec, fname, fexts

vars == <<opts, prev, prev2, last, last2, types, fspec, fname, fexts>>

\* Longest Vec<FileSpec> handed to allowed_types.
MaxTypes == 2

\* Longest extension slice handed to FileSpec::new.
MaxExts == 2

----------------------------------------------------------------------------
\* Option<Vec<FileSpec>>

None == [tag |-> "None"]

Some(v) == [tag |-> "Some", val |-> v]

\* The unit value of the private __non_exhaustive field.
Unit == <<>>

----------------------------------------------------------------------------
\* FileSpec

\* A mutant of FileSpec::new that loses the last extension of the slice.
FileSpec_new_dropLast(name, extensions) ==
    [name |-> name,
     extensions |-> IF extensions = <<>> THEN <<>>
                    ELSE SubSeq(extensions, 1, Len(extensions) - 1)]

\* A mutant of FileSpec::new that stores each extension with a leading dot.
FileSpec_new_dotted(name, extensions) ==
    [name |-> name,
     extensions |-> [i \in 1..Len(extensions) |-> <<".">> \o extensions[i]]]

\* pub const fn new(name, extensions) -> Self { FileSpec { name, extensions } }
FileSpec_new(name, extensions) ==
    [name |-> name, extensions |-> extensions]

FileSpec_TEXT == FileSpec_new("Text", << <<"t","x","t">> >>)

FileSpec_JPG == FileSpec_new("Jpeg", << <<"j","p","g">>, <<"j","p","e","g">> >>)

FileSpec_GIF == FileSpec_new("Gif", << <<"g","i","f">> >>)

FileSpec_PDF == FileSpec_new("PDF", << <<"p","d","f">> >>)

FileSpec_HTML == FileSpec_new("Web Page", << <<"h","t","m">>, <<"h","t","m","l">> >>)

PredefinedSpecs ==
    {FileSpec_TEXT, FileSpec_JPG, FileSpec_GIF, FileSpec_PDF, FileSpec_HTML}

----------------------------------------------------------------------------
\* FileDialogOptions

\* A mutant of the derived Default that starts with hidden files shown.
Default_hiddenShown ==
    [show_hidden |-> TRUE, allowed_types |-> None, non_exhaustive |-> Unit]

\* #[derive(Default)]: bool is false, Option is None, () is ().
FileDialogOptions_default ==
    [show_hidden |-> FALSE, allowed_types |-> None, non_exhaustive |-> Unit]

\* pub fn new() -> FileDialogOptions { FileDialogOptions::default() }
FileDialogOptions_new == FileDialogOptions_default

\* A mutant of show_hidden that rebuilds the value and loses the file types.
show_hidden_rebuilt(self) ==
    [show_hidden |-> TRUE, allowed_types |-> None, non_exhaustive |-> Unit]

\* A mutant of show_hidden that toggles the bit instead of setting it.
show_hidden_toggle(self) ==
    [self EXCEPT !.show_hidden = ~self.show_hidden]

\* pub fn show_hidden(mut self) -> Self { self.show_hidden = true; self }
show_hidden(self) ==
    [self EXCEPT !.show_hidden = TRUE]

\* A mutant of allowed_types that extends the list already held.
allowed_types_append(self, ts) ==
    [self EXCEPT !.allowed_types =
        IF self.allowed_types.tag = "Some"
        THEN Some(self.allowed_types.val \o ts)
        ELSE Some(ts)]

\* A mutant of allowed_types that treats an empty list as "no restriction".
allowed_types_emptyNone(self, ts) ==
    [self EXCEPT !.allowed_types = IF ts = <<>> THEN None ELSE Some(ts)]

\* pub fn allowed_types(mut self, types: Vec<FileSpec>) -> Self {
\*     self.allowed_types = Some(types); self }
allowed_types(self, ts) ==
    [self EXCEPT !.allowed_types = Some(ts)]

----------------------------------------------------------------------------
\* Inputs

SeqsUpTo(S, n) == UNION {[1..k -> S] : k \in 0..n}

\* The file types a caller passes to allowed_types.
Filters == {FileSpec_TEXT, FileSpec_JPG}

TypeLists == SeqsUpTo(Filters, MaxTypes)

\* The extension strings a caller passes to FileSpec::new.
ExtStrings ==
    { <<"t","x","t">>, <<"T","X","T">>, <<".","t","x","t">>, <<"d","o","c">> }

ExtLists == SeqsUpTo(ExtStrings, MaxExts)

Names == {"Text", "Jpeg", "PDF", "Word Document", "Custom"}

----------------------------------------------------------------------------
\* State machines: a caller building one options value (Spec) and a caller
\* constructing file types (SpecFileSpec).
\*   opts   the options value the caller holds
\*   prev   the value it held before the last call, prev2 before that
\*   last   the last builder call made, last2 the one before
\*   types  the argument of the last allowed_types call
\*   fspec  the FileSpec last constructed, from fname and fexts

Init ==
    /\ opts = FileDialogOptions_new
    /\ prev = FileDialogOptions_new
    /\ prev2 = FileDialogOptions_new
    /\ last = "new"
    /\ last2 = "new"
    /\ types = <<>>
    /\ fspec = FileSpec_TEXT
    /\ fname = "Text"
    /\ fexts = << <<"t","x","t">> >>

Shift(call) ==
    /\ prev' = opts
    /\ prev2' = prev
    /\ last' = call
    /\ last2' = last

New ==
    /\ opts' = FileDialogOptions_new
    /\ Shift("new")
    /\ UNCHANGED <<types, fspec, fname, fexts>>

ShowHidden ==
    /\ opts' = show_hidden(opts)
    /\ Shift("show_hidden")
    /\ UNCHANGED <<types, fspec, fname, fexts>>

AllowedTypes ==
    \E ts \in TypeLists :
        /\ opts' = allowed_types(opts, ts)
        /\ types' = ts
        /\ Shift("allowed_types")
        /\ UNCHANGED <<fspec, fname, fexts>>

FileSpecNew ==
    \E name \in Names, extensions \in ExtLists :
        /\ fspec' = FileSpec_new(name, extensions)
        /\ fname' = name
        /\ fexts' = extensions
        /\ UNCHANGED <<opts, prev, prev2, last, last2, types>>

Next == New \/ ShowHidden \/ AllowedTypes

Spec == Init /\ [][Next]_vars

NextFileSpec == FileSpecNew

SpecFileSpec == Init /\ [][NextFileSpec]_vars

----------------------------------------------------------------------------
\* Well-formedness of an extension list, as the data model words it.

\* ASCII lower-casing of the characters the inputs use.
Lower(c) ==
    CASE c = "T" -> "t"
      [] c = "X" -> "x"
      [] OTHER -> c

LowerStr(s) == [i \in 1..Len(s) |-> Lower(s[i])]

LeadingDot(s) == Len(s) > 0 /\ s[1] = "."

WellFormed(exts) ==
    /\ \A i \in 1..Len(exts) : ~LeadingDot(exts[i])
    /\ \A i, j \in 1..Len(exts) :
          i # j => LowerStr(exts[i]) # LowerStr(exts[j])

IsSome(x) == x.tag = "Some"

----------------------------------------------------------------------------
\* C1: FileDialogOptions::new() always returns the default options:
\* show_hidden is false and allowed_types is None, whatever was held before.
C1_NewIsDefault ==
    last = "new" =>
        /\ opts.show_hidden = FALSE
        /\ opts.allowed_types = None

\* new() called by a caller that held a value with both settings made.
C1_Witness ==
    /\ last = "new"
    /\ prev.show_hidden
    /\ IsSome(prev.allowed_types)

\* C2: o.show_hidden() has show_hidden true and the allowed_types of o (same
\* presence, same filters, same order); no other field changes.
C2_ShowHiddenFrame ==
    last = "show_hidden" =>
        /\ opts.show_hidden = TRUE
        /\ opts.allowed_types = prev.allowed_types
        /\ opts.non_exhaustive = prev.non_exhaustive
        /\ DOMAIN opts = DOMAIN prev

\* show_hidden() on a value that did not show hidden files and held two
\* different filters.
C2_Witness ==
    /\ last = "show_hidden"
    /\ ~prev.show_hidden
    /\ prev.allowed_types = Some(<<FileSpec_JPG, FileSpec_TEXT>>)

\* C3: o.allowed_types(ts) holds Some(ts), exactly the given filters in the
\* given order, replacing what o held, and keeps the show_hidden of o.
C3_AllowedTypesReplaces ==
    last = "allowed_types" =>
        /\ opts.allowed_types = Some(types)
        /\ opts.show_hidden = prev.show_hidden
        /\ opts.non_exhaustive = prev.non_exhaustive

\* allowed_types(ts) with two different filters on a value that already held
\* a different, non-empty list and showed hidden files.
C3_Witness ==
    /\ last = "allowed_types"
    /\ types = <<FileSpec_JPG, FileSpec_TEXT>>
    /\ IsSome(prev.allowed_types)
    /\ prev.allowed_types.val # <<>>
    /\ prev.allowed_types.val # types
    /\ prev.show_hidden

\* C4: the predefined constants carry exactly the extensions txt; jpg, jpeg;
\* gif; pdf; htm, html, and FileSpec::new(name, extensions) holds exactly the
\* name and the extensions it was given.
C4_ConstantsAndNew ==
    /\ FileSpec_TEXT.extensions = << <<"t","x","t">> >>
    /\ FileSpec_JPG.extensions = << <<"j","p","g">>, <<"j","p","e","g">> >>
    /\ FileSpec_GIF.extensions = << <<"g","i","f">> >>
    /\ FileSpec_PDF.extensions = << <<"p","d","f">> >>
    /\ FileSpec_HTML.extensions = << <<"h","t","m">>, <<"h","t","m","l">> >>
    /\ fspec.name = fname
    /\ fspec.extensions = fexts

\* FileSpec::new called with a name and two different extensions.
C4_Witness ==
    /\ fname = "Custom"
    /\ Len(fexts) = 2
    /\ fexts[1] # fexts[2]

\* C8 as stated: every FileSpec that can be constructed, by FileSpec::new or
\* as a predefined constant, has extensions without a leading dot and
\* pairwise different under case-insensitive comparison.
C8_EveryFileSpecWellFormed ==
    /\ \A s \in PredefinedSpecs : WellFormed(s.extensions)
    /\ WellFormed(fspec.extensions)

\* C8 as amended: the predefined constants have extensions without a leading
\* dot and pairwise different under case-insensitive comparison, and
\* FileSpec::new neither checks nor normalises: the FileSpec it returns has
\* that property exactly when the extensions it was given have it.
C8_WellFormedAsGiven ==
    /\ \A s \in PredefinedSpecs : WellFormed(s.extensions)
    /\ WellFormed(fspec.extensions) <=> WellFormed(fexts)

\* FileSpec::new given two extensions that differ only in case.
C8_Witness ==
    /\ fname = "Custom"
    /\ fexts = << <<"t","x","t">>, <<"T","X","T">> >>
    /\ fspec.extensions = fexts

\* C9: along a chain of show_hidden() and allowed_types(..) calls, a
\* show_hidden that is true stays true and an allowed_types that is Some is
\* never None again, an empty list included.
C9_SettingsNeverUndone ==
    [][(ShowHidden \/ AllowedTypes) =>
          /\ opts.show_hidden => opts'.show_hidden
          /\ IsSome(opts.allowed_types) => IsSome(opts'.allowed_types)]_vars

\* allowed_types(empty) called on a value with both settings made, right
\* after show_hidden().
C9_Witness ==
    /\ last = "allowed_types"
    /\ last2 = "show_hidden"
    /\ types = <<>>
    /\ prev.show_hidden
    /\ IsSome(prev.allowed_types)
    /\ prev.allowed_types.val # <<>>

\* C10: show_hidden() and allowed_types(ts) commute, and show_hidden() is
\* idempotent: the value reached by the two calls in one order is the value
\* the other order gives, and a second show_hidden() changes nothing.
C10_CommuteAndIdempotent ==
    /\ (last2 = "show_hidden" /\ last = "allowed_types") =>
          LET other == show_hidden(allowed_types(prev2, types))
          IN  /\ opts.show_hidden = other.show_hidden
              /\ opts.allowed_types = other.allowed_types
    /\ (last2 = "allowed_types" /\ last = "show_hidden") =>
          LET other == allowed_types(show_hidden(prev2), types)
          IN  /\ opts.show_hidden = other.show_hidden
              /\ opts.allowed_types = other.allowed_types
    /\ (last2 = "show_hidden" /\ last = "show_hidden") => opts = prev

\* show_hidden() then allowed_types(ts), ts of two different filters, on a
\* value that did not show hidden files and held another list.
C10_Witness ==
    /\ last2 = "show_hidden"
    /\ last = "allowed_types"
    /\ ~prev2.show_hidden
    /\ IsSome(prev2.allowed_types)
    /\ prev2.allowed_types.val # types
    /\ Len(types) = 2
    /\ types[1] # types[2]

====
